---- MODULE Spec2Model ----
(***************************************************************************)
(* The `rung build` pipeline of rung-cli (src/src/build.js, lines 1-307).  *)
(*                                                                         *)
(* One build is one promise chain:                                         *)
(*   readdir(dir) -> filterFiles -> linkFiles -> precompile -> createZip   *)
(*     -> getProjectName -> saveZip -> emitSuccess                         *)
(* The model follows the chain step by step.  What the chain reads from    *)
(* the outside (directory listings, file contents, the outcome of a        *)
(* collaborator call) is chosen when the code reads it and then kept, so   *)
(* a second read of the same file sees the same content.                   *)
(*                                                                         *)
(* File names and paths are sequences of one-character strings, so that    *)
(* the regular expressions, path.join, drop/takeWhile and join of the      *)
(* source are computed character by character.                             *)
(*                                                                         *)
(* The build takes its project directory and its destination from the      *)
(* command line; what it reads by a relative path is read in the working   *)
(* directory, what it reads through dir in the project directory.          *)
(*                                                                         *)
(* The database module (src/src/build.js, lines 309-433) is a second       *)
(* program over its own variables: calls of upsert, read and clear, each   *)
(* a promise chain of its own, under the specification SpecDb.             *)
(*                                                                         *)
(* The interactive input (src/unnamed/part_000, ask) is a third program:   *)
(* the prompts of one call of ask and the answers to them, under the       *)
(* specification SpecAsk.                                                  *)
(***************************************************************************)
EXTENDS Integers, Sequences, FiniteSets, TLC

\* ------------------------------------------------------------------------
\* Bounds of the model
\* ------------------------------------------------------------------------
\* entries a project holds beyond its mandatory files: the modules index.js
\* declares, the entries of its locales directory and the entries of its
\* autocomplete directory, taken together
MaxEntries == 2

\* ------------------------------------------------------------------------
\* Characters and names
\* ------------------------------------------------------------------------
Lower == {"a","b","c","d","e","f","g","h","i","j","k","l","m",
          "n","o","p","q","r","s","t","u","v","w","x","y","z"}
Upper == {"A","B","C","D","E","F","G","H","I","J","K","L","M",
          "N","O","P","Q","R","S","T","U","V","W","X","Y","Z"}

PackageJson == <<"p","a","c","k","a","g","e",".","j","s","o","n">>
IndexJs     == <<"i","n","d","e","x",".","j","s">>
IconPng     == <<"i","c","o","n",".","p","n","g">>
MetaFile    == <<".","m","e","t","a">>
LocalesDir  == <<"l","o","c","a","l","e","s">>
AutoDir     == <<"a","u","t","o","c","o","m","p","l","e","t","e">>
DefaultLocale == <<"d","e","f","a","u","l","t">>
DotJson     == <<".","j","s","o","n">>
DotJs       == <<".","j","s">>
DotSlash    == <<".","/">>

\* names a locales directory may hold: a two-letter language, a language
\* with a two-letter region, a three-letter language, a language with a
\* three-letter region
EnJson    == <<"e","n",".","j","s","o","n">>
PtBrJson  == <<"p","t","_","B","R",".","j","s","o","n">>
FilJson   == <<"f","i","l",".","j","s","o","n">>
EnUsaJson == <<"e","n","_","U","S","A",".","j","s","o","n">>
LocalePool == {EnJson, PtBrJson, FilJson, EnUsaJson}
\* what a locale file holds: a JSON object, JSON that is no object
\* (a number, null), or text that is no JSON
LocaleKinds == {"object", "scalar", "invalid"}

\* names an autocomplete directory may hold
AJs  == <<"a",".","j","s">>
BJs  == <<"b",".","j","s">>
CTxt == <<"c",".","t","x","t">>
ScriptPool == {AJs, BJs, CTxt}
\* what a script is: free of imports, importing something, or not readable
\* as a file (a directory of that name)
ScriptKinds == {"clean", "imports", "unreadable"}

\* modules index.js may declare: a local file, an external package, a
\* locale file required by the code, the metadata file of an earlier build
LibModule    == <<".","/","l","i","b",".","j","s">>
RamdaModule  == <<"r","a","m","d","a">>
LocaleModule == DotSlash \o LocalesDir \o <<"/">> \o EnJson
MetaModule   == DotSlash \o MetaFile
ModulePool == {LibModule, RamdaModule, LocaleModule, MetaModule}

\* ------------------------------------------------------------------------
\* Sequence helpers (ramda and Array.prototype)
\* ------------------------------------------------------------------------
Range(s) == {s[i] : i \in DOMAIN s}

\* ramda contains(x, list)
contains(x, list) == x \in Range(list)

\* ramda uniq(list): first occurrences, in order
RECURSIVE uniq(_)
uniq(list) ==
    IF list = <<>> THEN <<>>
    ELSE LET init == uniq(SubSeq(list, 1, Len(list) - 1))
             last == list[Len(list)]
         IN IF contains(last, init) THEN init ELSE Append(init, last)

\* ramda union(a, b) = uniq(concat(a, b))
union(a, b) == uniq(a \o b)

\* ramda startsWith(prefix, s)
startsWith(prefix, s) ==
    Len(s) >= Len(prefix) /\ SubSeq(s, 1, Len(prefix)) = prefix

\* ramda endsWith(suffix, s)
endsWith(suffix, s) ==
    Len(s) >= Len(suffix) /\ SubSeq(s, Len(s) - Len(suffix) + 1, Len(s)) = suffix

\* ramda drop(n, s)
drop(n, s) == SubSeq(s, n + 1, Len(s))

\* ramda takeWhile(complement(equals(c)), s)
RECURSIVE takeUntil(_, _)
takeUntil(c, s) ==
    IF s = <<>> \/ s[1] = c THEN <<>> ELSE <<s[1]>> \o takeUntil(c, Tail(s))

\* Array.prototype.join / ramda join(sep, list)
RECURSIVE join(_, _)
join(sep, list) ==
    IF list = <<>> THEN <<>>
    ELSE IF Len(list) = 1 THEN list[1]
    ELSE list[1] \o sep \o join(sep, Tail(list))

\* path.join(directory, file) on a POSIX system
pathJoin(directory, file) == directory \o <<"/">> \o file

\* all orders in which a set can be listed
Perms(S) ==
    {p \in [1..Cardinality(S) -> S] : \A x \in S : \E i \in DOMAIN p : p[i] = x}

\* whether needle occurs in text
Occurs(needle, text) ==
    \E i \in 1..(Len(text) - Len(needle) + 1) :
        SubSeq(text, i, i + Len(needle) - 1) = needle

\* ------------------------------------------------------------------------
\* The regular expressions of the source
\* ------------------------------------------------------------------------
\* [a-z]{l}(_[A-Z]{r})?\.json for some l in langLens, r in regionLens
LocaleShape(name, langLens, regionLens) ==
    \E l \in langLens : \E r \in regionLens \cup {0} :
        /\ Len(name) = l + (IF r = 0 THEN 0 ELSE r + 1) + 5
        /\ \A i \in 1..l : name[i] \in Lower
        /\ r > 0 => /\ name[l + 1] = "_"
                    /\ \A i \in (l + 2)..(l + 1 + r) : name[i] \in Upper
        /\ endsWith(DotJson, name)

\* build.js:182  /^[a-z]{2}(_[A-Z]{2,3})?\.json$/
linkLocalePattern(name) == LocaleShape(name, {2}, {2, 3})

\* build.js:113  /^locales(\/|\\)[a-z]{2,3}(_[A-Z]{2})?\.json$/
precompileLocalePattern(file) ==
    /\ Len(file) > 8
    /\ SubSeq(file, 1, 7) = LocalesDir
    /\ file[8] \in {"/", "\\"}
    /\ LocaleShape(drop(8, file), {2, 3}, {2})

\* build.js:47  localeByFile = pipe(drop(8), takeWhile(complement(equals('.'))), join(''))
localeByFile(file) == takeUntil(".", drop(8, file))

\* build.js:129  clearModule = replace(/^\.\//, '')
clearModule(module) ==
    IF startsWith(DotSlash, module) THEN drop(2, module) ELSE module

\* build.js:45
requiredFiles == <<PackageJson, IndexJs>>

\* the names of the databases: the names of two extensions
DbNames == {"alpha", "beta"}

\* ------------------------------------------------------------------------
\* State
\* ------------------------------------------------------------------------
VARIABLES
    pc,          \* stage of the pipeline the promise chain is in
    started,     \* the stages started so far, in order
    error,       \* the error the build rejected with, kind "none" before
    warnings,    \* number of warnings emitted (emitWarning)
    successes,   \* number of success messages emitted (emitSuccess)
    top,         \* the listing of the project directory
    vstep,       \* File Validator: "readdir", "readIndex", "done", "rejected"
    modules,     \* the modules inspect() found in index.js
    files,       \* the manifest's file list
    localesFs,   \* the locales directory as listFiles('locales') found it
    autoFs,      \* the autocomplete directory as listFiles found it
    locStage,    \* linkLocales: "idle", "listing", "reading", "done"
    locCand,     \* linkLocales: the candidate paths, in listing order
    locPending,  \* linkLocales: candidates whose read has not completed
    locKeep,     \* linkLocales: candidates whose predicate resolved true
    acStage,     \* linkAutoComplete: "idle", "listing", "checking", "done"
    acCand,      \* linkAutoComplete: the script paths, in listing order
    acPending,   \* linkAutoComplete: scripts whose check has not completed
    preStage,    \* precompile: "idle", "reading", "compiling", "running",
                 \*             "writingMeta", "done"
    preFiles,    \* precompile: the locale files filtered from the file list
    prePending,  \* precompile: indices of preFiles still being read
    pairs,       \* precompile: index of preFiles -> what JSON.parse returned
    invoked,     \* the Sandbox Runner invocations issued, in order
    runPending,  \* indices of invoked that have not completed
    throwing,    \* the locales in which the extension throws when executed
    runResult,   \* index of invoked -> projected result of that execution
    meta,        \* <<m>> once the merged metadata m is computed
    metaOnDisk,  \* <<m>> once .meta has been written with content m
    zip,         \* the file entries of the in-memory archive
    projectName, \* <<name>> once package.json has been parsed
    target,      \* <<path>> once the output target is resolved
    archive,     \* the archive file on disk: "none", "partial", "complete"
    args,        \* the command line: whether a project directory and an
                 \* output destination are given
    tree,        \* the paths under dir as lstatSync and readdirSync find
                 \* them while the archive is built: path -> type
    dest,        \* <<kind>> once lstatSync has looked at the destination
    written,     \* the absolute paths the build has created or written
    rungFolder,  \* ~/.rung: "missing", "dir" or "notdir"
    dbFiles,     \* database name -> <<text>> of its file, <<>> without file
    calls,       \* the calls made to the database module, in call order
    questions,   \* ask: the questions, in the order of their keys
    askStage,    \* ask: "idle", "warnings", "waiting" or "resolved"
    askWarnings, \* ask: number of warnings triggerWarnings emitted
    remaining,   \* ask: the keys recur has still to ask
    answered,    \* ask: the answers recur has collected
    asked,       \* ask: the prompts written so far, each with the value its
                 \*      answer resolved to
    closes,      \* ask: how often io.close was called
    resolvedWith \* ask: <<answers>> once the promise of ask is resolved

vars == <<pc, started, error, warnings, successes, top, vstep, modules, files,
          localesFs, autoFs, locStage, locCand, locPending, locKeep,
          acStage, acCand, acPending, preStage, preFiles, prePending, pairs,
          invoked, runPending, throwing, runResult, meta, metaOnDisk, zip,
          projectName, target, archive, args, tree, dest, written,
          rungFolder, dbFiles, calls,
          questions, askStage, askWarnings, remaining, answered, asked,
          closes, resolvedWith>>

validatorVars == <<top, vstep, modules>>
linkVars == <<localesFs, autoFs, locStage, locCand, locPending, locKeep,
              acStage, acCand, acPending>>
preVars == <<preStage, preFiles, prePending, pairs, invoked, runPending,
             throwing, runResult, meta, metaOnDisk>>
outVars == <<zip, projectName, target, archive, tree, dest, written>>
dbVars == <<rungFolder, dbFiles, calls>>
askVars == <<questions, askStage, askWarnings, remaining, answered, asked,
             closes, resolvedWith>>
buildVars == <<pc, started, error, warnings, successes, files, args,
               validatorVars, linkVars, preVars, outVars>>

Stages == <<"Validating", "Linking", "Precompiling", "Archiving",
            "ResolvingOutput", "Writing", "Done">>

NoError == [kind |-> "none", subject |-> <<>>]
Err(kind, subject) == [kind |-> kind, subject |-> subject]

UnreadDir == [kind |-> "unread", entries |-> <<>>, content |-> <<>>]

\* a rejection that is recorded while the chain goes on
RejectSwallowed(e) ==
    /\ pc' = pc
    /\ error' = e

\* the build promise rejects: nothing of the chain runs after it
\* build.js:299-306, a rejection skips every later .then/.spread/.tap
Reject(e) ==
    /\ pc' = "Failed"
    /\ error' = e

\* the chain moves on to the next stage
Enter(stage) ==
    /\ pc' = stage
    /\ started' = Append(started, stage)

\* ------------------------------------------------------------------------
\* The command line and the paths it stands for
\* ------------------------------------------------------------------------
\* process.cwd()
Cwd == <<"/","w">>
\* a project directory given as args._[1], and a destination given with -o
ProjectArg == <<"p">>
OutputArg  == <<"o">>

\* the command lines within the bound: each argument given counts as one
\* entry of the build's input
ArgsPool ==
    {a \in [project : {<<>>, <<ProjectArg>>}, output : {<<>>, <<OutputArg>>}] :
        Len(a.project) + Len(a.output) <= MaxEntries}

\* args._[1] || ''  and  args.output || '.'
orElse(given, default) == IF given = <<>> THEN default ELSE given[1]

\* path.resolve('.', p) for a relative p: the working directory for '' and
\* '.', otherwise p under the working directory
pathResolve(p) == IF p \in {<<>>, <<".">>} THEN Cwd ELSE pathJoin(Cwd, p)

\* build.js:297  dir = path.resolve('.', args._[1] || '')
dir == pathResolve(orElse(args.project, <<>>))

\* the state in which build(a) starts its chain
BuildStart(a) ==
    /\ args = a
    /\ tree = <<>>
    /\ dest = <<>>
    /\ written = {}
    /\ pc = "Validating"
    /\ started = <<"Validating">>
    /\ error = NoError
    /\ warnings = 0
    /\ successes = 0
    /\ top = {}
    /\ vstep = "readdir"
    /\ modules = <<>>
    /\ files = <<>>
    /\ localesFs = UnreadDir
    /\ autoFs = UnreadDir
    /\ locStage = "idle"
    /\ locCand = <<>>
    /\ locPending = {}
    /\ locKeep = {}
    /\ acStage = "idle"
    /\ acCand = <<>>
    /\ acPending = {}
    /\ preStage = "idle"
    /\ preFiles = <<>>
    /\ prePending = {}
    /\ pairs = <<>>
    /\ invoked = <<>>
    /\ runPending = {}
    /\ throwing = {}
    /\ runResult = <<>>
    /\ meta = <<>>
    /\ metaOnDisk = <<>>
    /\ zip = <<>>
    /\ projectName = <<>>
    /\ target = <<>>
    /\ archive = "none"

\* the database module before any call, with no ~/.rung yet
DbStart ==
    /\ rungFolder = "missing"
    /\ dbFiles = [n \in DbNames |-> <<>>]
    /\ calls = <<>>

\* no question is being asked
AskIdle ==
    /\ questions = <<>>
    /\ askStage = "idle"
    /\ askWarnings = 0
    /\ remaining = <<>>
    /\ answered = <<>>
    /\ asked = <<>>
    /\ closes = 0
    /\ resolvedWith = <<>>

Init ==
    /\ \E a \in ArgsPool : BuildStart(a)
    /\ DbStart
    /\ AskIdle

\* ------------------------------------------------------------------------
\* File Validator: build.js:299-300, filterFiles build.js:128-147
\* ------------------------------------------------------------------------
MissingPrefix == <<"m","i","s","s","i","n","g"," ">>
MissingSuffix == <<" ","f","r","o","m"," ","t","h","e"," ",
                   "p","r","o","j","e","c","t">>
CommaSpace == <<",", " ">>

\* build.js:130  without(files, requiredFiles), for a listing given as a set
missingFiles(listing) ==
    SelectSeq(requiredFiles, LAMBDA f : f \notin listing)

\* a message that names the first missing file only
missingMessageFirstOnly(missing) ==
    MissingPrefix \o missing[1] \o MissingSuffix

\* build.js:135  `missing ${missingFiles.join(', ')} from the project`
missingMessage(missing) ==
    MissingPrefix \o join(CommaSpace, missing) \o MissingSuffix

\* build.js:131-132  resources = hasIcon ? ['icon.png'] : []
resources(listing) == IF IconPng \in listing THEN <<IconPng>> ELSE <<>>

\* a filter that lets every module through
localModulesAny(mods) == mods

\* build.js:144  filter(startsWith('./'))
localModules(mods) == SelectSeq(mods, LAMBDA m : startsWith(DotSlash, m))

\* modules.map(clearModule)
RECURSIVE mapClearModule(_)
mapClearModule(mods) ==
    IF mods = <<>> THEN <<>>
    ELSE <<clearModule(mods[1])>> \o mapClearModule(Tail(mods))

\* build.js:146  union(modules.map(clearModule), concat(resources, requiredFiles))
initialFiles(mods, listing) ==
    union(mapClearModule(localModules(mods)), resources(listing) \o requiredFiles)

\* fs.readdirAsync(dir) completes and filterFiles runs on the listing:
\* it throws when a required file is missing, otherwise warns about a
\* missing icon and starts reading index.js
ReadDirDone ==
    /\ pc = "Validating" /\ vstep = "readdir"
    /\ \E listing \in SUBSET {PackageJson, IndexJs, IconPng} :
        /\ top' = listing
        /\ IF Len(missingFiles(listing)) > 0
           THEN /\ Reject(Err("MissingRequiredFiles",
                              missingMessage(missingFiles(listing))))
                /\ vstep' = "rejected"
                /\ UNCHANGED warnings
           ELSE /\ warnings' = IF IconPng \in listing THEN warnings ELSE warnings + 1
                /\ vstep' = "readIndex"
                /\ UNCHANGED <<pc, error>>
    /\ UNCHANGED <<started, successes, modules, files>>
    /\ UNCHANGED <<linkVars, preVars, outVars>>
    /\ UNCHANGED <<args, dbVars, askVars>>

\* fs.readdirAsync(dir) fails (dir is no directory)
ReadDirFail ==
    /\ pc = "Validating" /\ vstep = "readdir"
    /\ Reject(Err("IOError", <<>>))
    /\ UNCHANGED <<started, warnings, successes, files>>
    /\ UNCHANGED <<validatorVars, linkVars, preVars, outVars>>
    /\ UNCHANGED <<args, dbVars, askVars>>

\* the entries the input may still bring, given what the command line and
\* the project already hold
EntriesLeft ==
    MaxEntries - Len(args.project) - Len(args.output)
               - Len(modules) - Len(localesFs.entries) - Len(autoFs.entries)

\* the lists of modules inspect() may report for index.js
ModuleLists ==
    UNION {Perms(S) : S \in {T \in SUBSET ModulePool : Cardinality(T) <= EntriesLeft}}

\* reading index.js completes, inspect() lists its modules and the manifest
\* gets its initial file list; linkFiles then starts both link steps
IndexInspected ==
    /\ pc = "Validating" /\ vstep = "readIndex"
    /\ \E mods \in ModuleLists :
        /\ modules' = mods
        /\ files' = initialFiles(mods, top)
    /\ vstep' = "done"
    /\ Enter("Linking")
    /\ locStage' = "listing"
    /\ acStage' = "listing"
    /\ UNCHANGED <<error, warnings, successes, top>>
    /\ UNCHANGED <<localesFs, autoFs, locCand, locPending, locKeep, acCand, acPending>>
    /\ UNCHANGED <<preVars, outVars>>
    /\ UNCHANGED <<args, dbVars, askVars>>

\* reading index.js fails, or inspect() throws on it
IndexFail ==
    /\ pc = "Validating" /\ vstep = "readIndex"
    /\ Reject(Err("IndexError", IndexJs))
    /\ UNCHANGED <<started, warnings, successes, files>>
    /\ UNCHANGED <<validatorVars, linkVars, preVars, outVars>>
    /\ UNCHANGED <<args, dbVars, askVars>>

\* ------------------------------------------------------------------------
\* File Linker: linkFiles build.js:199-203
\* ------------------------------------------------------------------------
\* what listFiles (build.js:156-160) may find for a directory: nothing of
\* that name, something that is no directory, or a directory with entries
DirStates(pool, kinds, max) ==
    {[kind |-> "absent", entries |-> <<>>, content |-> <<>>],
     [kind |-> "notdir", entries |-> <<>>, content |-> <<>>]}
    \cup
    {[kind |-> "dir", entries |-> e, content |-> c] :
        <<e, c>> \in UNION {{<<p, k>> \in Perms(S) \X [1..Cardinality(S) -> UNION {kinds[n] : n \in S}] :
                                \A i \in DOMAIN p : k[i] \in kinds[p[i]]} :
                            S \in {T \in SUBSET pool : Cardinality(T) <= max}}}

\* what an entry of the locales directory may hold
localeKindsOf == [name \in LocalePool |-> LocaleKinds]

\* what an entry of the autocomplete directory may be; only scripts are read
scriptKindsOf ==
    [name \in ScriptPool |-> IF endsWith(DotJs, name) THEN ScriptKinds ELSE {"clean"}]

\* build.js:158-159  lstat.isDirectory() ? readdir(directory) : [], and [] on
\* any failure
listFiles(d) == IF d.kind = "dir" THEN d.entries ELSE <<>>

\* map(file => path.join(directory, file))
RECURSIVE mapPathJoin(_, _)
mapPathJoin(directory, names) ==
    IF names = <<>> THEN <<>>
    ELSE <<pathJoin(directory, names[1])>> \o mapPathJoin(directory, Tail(names))

\* build.js:181-183  the entries linkLocales goes on to read
localeCandidates(names) ==
    mapPathJoin(LocalesDir, SelectSeq(names, linkLocalePattern))

\* build.js:169  the entries linkAutoComplete goes on to check
scriptCandidates(names) ==
    mapPathJoin(AutoDir, SelectSeq(names, LAMBDA n : endsWith(DotJs, n)))

\* what a directory holds under a path "<directory>/<name>": the kind of
\* that entry, "missing" when there is none
entryKind(d, directory, file) ==
    IF \E i \in DOMAIN d.entries : pathJoin(directory, d.entries[i]) = file
    THEN d.content[CHOOSE i \in DOMAIN d.entries :
                       pathJoin(directory, d.entries[i]) = file]
    ELSE "missing"

\* a predicate that keeps whatever parses as JSON
isLocaleParsed(kind) == kind \in {"object", "scalar"}

\* build.js:184-186  readFile(location).then(pipe(JSON.parse, is(Object)))
\*                   .catchReturn(false)
isLocaleObject(kind) == kind = "object"

\* the result of bluebird's .filter: the kept candidates in their own order
locResult == SelectSeq(locCand, LAMBDA f : f \in locKeep)

\* linkLocales build.js:180-183: the listing of the locales directory
\* arrives, the names are filtered and the reads of the candidates start
ListLocales ==
    /\ pc = "Linking" /\ locStage = "listing"
    /\ \E d \in DirStates(LocalePool, localeKindsOf, EntriesLeft) :
        /\ localesFs' = d
        /\ locCand' = localeCandidates(listFiles(d))
        /\ locPending' = Range(localeCandidates(listFiles(d)))
        /\ locStage' = IF localeCandidates(listFiles(d)) = <<>>
                       THEN "done" ELSE "reading"
    /\ UNCHANGED <<pc, started, error, warnings, successes, files, locKeep>>
    /\ UNCHANGED <<autoFs, acStage, acCand, acPending>>
    /\ UNCHANGED <<validatorVars, preVars, outVars>>
    /\ UNCHANGED <<args, dbVars, askVars>>

\* linkLocales build.js:184-186: the read of one candidate completes, in
\* any order; a failure only drops the file
LocaleChecked(f) ==
    /\ pc = "Linking" /\ locStage = "reading"
    /\ f \in locPending
    /\ locPending' = locPending \ {f}
    /\ locKeep' = IF isLocaleObject(entryKind(localesFs, LocalesDir, f))
                  THEN locKeep \cup {f} ELSE locKeep
    /\ locStage' = IF locPending' = {} THEN "done" ELSE "reading"
    /\ UNCHANGED <<pc, started, error, warnings, successes, files>>
    /\ UNCHANGED <<localesFs, autoFs, locCand, acStage, acCand, acPending>>
    /\ UNCHANGED <<validatorVars, preVars, outVars>>
    /\ UNCHANGED <<args, dbVars, askVars>>

\* linkAutoComplete build.js:168-171: the listing of the autocomplete
\* directory arrives and the checks of the scripts start
ListAutoComplete ==
    /\ pc = "Linking" /\ acStage = "listing"
    /\ \E d \in DirStates(ScriptPool, scriptKindsOf, EntriesLeft) :
        /\ autoFs' = d
        /\ acCand' = scriptCandidates(listFiles(d))
        /\ acPending' = Range(scriptCandidates(listFiles(d)))
        /\ acStage' = IF scriptCandidates(listFiles(d)) = <<>>
                      THEN "done" ELSE "checking"
    /\ UNCHANGED <<pc, started, error, warnings, successes, files>>
    /\ UNCHANGED <<localesFs, locStage, locCand, locPending, locKeep>>
    /\ UNCHANGED <<validatorVars, preVars, outVars>>
    /\ UNCHANGED <<args, dbVars, askVars>>

\* the Module Inspector's check of a script's content: an error naming the
\* file when the content has an import or dependency statement
ensureNoImports(file, hasImports) ==
    IF hasImports THEN Err("ImportViolation", file) ELSE NoError

\* a script that is read but whose content is not checked
scriptVerdictUnchecked(kind, file) ==
    IF kind = "unreadable" THEN Err("ReadError", file) ELSE NoError

\* build.js:170-171  the outcome of readFile(file).then(ensureNoImports(file))
scriptVerdict(kind, file) ==
    IF kind = "unreadable" THEN Err("ReadError", file)
    ELSE ensureNoImports(file, kind = "imports")

\* linkAutoComplete build.js:170-171: the check of one script completes, in
\* any order; the first rejection rejects all(...) and with it the build
ScriptChecked(f) ==
    /\ pc = "Linking" /\ acStage = "checking"
    /\ f \in acPending
    /\ LET verdict == scriptVerdict(entryKind(autoFs, AutoDir, f), f)
       IN IF verdict = NoError
          THEN /\ acPending' = acPending \ {f}
               /\ acStage' = IF acPending' = {} THEN "done" ELSE "checking"
               /\ UNCHANGED <<pc, error>>
          ELSE /\ Reject(verdict)
               /\ acPending' = acPending \ {f}
               /\ UNCHANGED acStage
    /\ UNCHANGED <<started, warnings, successes, files>>
    /\ UNCHANGED <<localesFs, autoFs, locStage, locCand, locPending, locKeep, acCand>>
    /\ UNCHANGED <<validatorVars, preVars, outVars>>
    /\ UNCHANGED <<args, dbVars, askVars>>

\* build.js:202  sort(subtract): the comparator subtracts two strings, which
\* is NaN for every pair of paths, and NaN counts as "equal", so the sort
\* has nothing to reorder and leaves the list as it is
sortSubtract(list) == list

\* build.js:201-202  .spread(union).then(pipe(union(files), sort(subtract)))
linkedFiles(manifest, locales, scripts) ==
    sortSubtract(union(manifest, union(locales, scripts)))

\* build.js:113  filter(test(/^locales.../))
precompileLocales(list) == SelectSeq(list, precompileLocalePattern)

\* both link steps are done: the lists are joined with the manifest's, and
\* precompile (build.js:112-114) filters the locale files out of the result
\* and starts reading them
LinkJoin ==
    /\ pc = "Linking" /\ locStage = "done" /\ acStage = "done"
    /\ files' = linkedFiles(files, locResult, acCand)
    /\ Enter("Precompiling")
    /\ preFiles' = precompileLocales(files')
    /\ prePending' = DOMAIN preFiles'
    /\ preStage' = IF preFiles' = <<>> THEN "compiling" ELSE "reading"
    /\ UNCHANGED <<error, warnings, successes>>
    /\ UNCHANGED <<pairs, invoked, runPending, throwing, runResult, meta, metaOnDisk>>
    /\ UNCHANGED <<validatorVars, linkVars, outVars>>
    /\ UNCHANGED <<args, dbVars, askVars>>

\* ------------------------------------------------------------------------
\* Locale Aggregator: precompile build.js:111-118
\* ------------------------------------------------------------------------
\* a read that, as in linking, lets a file through that does not parse
parsesLenient(kind) == kind # "missing"

\* build.js:60-61  whether readFile(...).then(JSON.parse) fulfils for a file
\* of that kind
parses(kind) == kind \in {"object", "scalar"}

\* what JSON.parse returns for the content of a file: the value that file holds
jsonParse(file, kind) == [kind |-> kind, of |-> file]

\* the {} of the default case
EmptyStrings == [kind |-> "empty", of |-> <<>>]

\* what the Sandbox Runner returns for one execution of the extension: the
\* extension's declared title, description, preview and params as they come
\* out with that locale's string table
getProperties(locale, strings) ==
    [title       |-> [field |-> "title", run |-> locale],
     description |-> [field |-> "description", run |-> locale],
     preview     |-> [field |-> "preview", run |-> locale],
     params      |-> [p \in {"city"} |->
                        [type |-> "String",
                         description |-> [field |-> "param", run |-> locale]]]]

\* a projection keyed by the name of the execution context, precompile-<locale>
projectByContextName(locale, config) ==
    LET name == <<"p","r","e","c","o","m","p","i","l","e","-">> \o locale
    IN [title       |-> (name :> config.title),
        description |-> (name :> config.description),
        preview     |-> (name :> config.preview),
        params      |-> [p \in DOMAIN config.params |->
                           [type |-> config.params[p].type,
                            description |-> (name :> config.params[p].description)]]]

\* build.js:72-78  project(locale, config)
project(locale, config) ==
    [title       |-> (locale :> config.title),
     description |-> (locale :> config.description),
     preview     |-> (locale :> config.preview),
     params      |-> [p \in DOMAIN config.params |->
                        [type |-> config.params[p].type,
                         description |-> (locale :> config.params[p].description)]]]

\* deepmerge of two objects whose values are leaves: the keys of both, the
\* second object's value where both have the key
mergeLeaves(x, y) ==
    [k \in DOMAIN x \cup DOMAIN y |-> IF k \in DOMAIN y THEN y[k] ELSE x[k]]

\* deepmerge(x, y) of two projected records
deepmerge(x, y) ==
    [title       |-> mergeLeaves(x.title, y.title),
     description |-> mergeLeaves(x.description, y.description),
     preview     |-> mergeLeaves(x.preview, y.preview),
     params      |-> [p \in DOMAIN x.params \cup DOMAIN y.params |->
                        IF p \notin DOMAIN y.params THEN x.params[p]
                        ELSE IF p \notin DOMAIN x.params THEN y.params[p]
                        ELSE [type |-> y.params[p].type,
                              description |-> mergeLeaves(x.params[p].description,
                                                          y.params[p].description)]]]

\* deepmerge.all(list): the list folded from the left
RECURSIVE deepmergeAll(_)
deepmergeAll(list) ==
    IF Len(list) = 1 THEN list[1]
    ELSE deepmerge(deepmergeAll(SubSeq(list, 1, Len(list) - 1)), list[Len(list)])

\* build.js:93  ifElse(propEq('length', 1), head, unary(deepmerge.all))
mergeResults(list) ==
    IF Len(list) = 1 THEN Head(list) ELSE deepmergeAll(list)

\* build.js:90  [['default', {}], ...locales]
executionSet(locales) ==
    <<[locale |-> DefaultLocale, strings |-> EmptyStrings]>> \o locales

\* build.js:60, 90  all(list.map(f)): the value of the promise made for the
\* i-th element becomes the i-th element of the result, whichever values
\* are already there as it completes
allSlotAsCompleted(i, done) == Cardinality(DOMAIN done) + 1
allSlot(i, done) == i

\* localesToPairs build.js:59-63: the read of one locale file completes, in
\* any order; a file that cannot be read or parsed rejects all(...) and
\* with it the build
LocaleRead(i) ==
    /\ pc = "Precompiling" /\ preStage = "reading"
    /\ i \in prePending
    /\ LET kind == entryKind(localesFs, LocalesDir, preFiles[i])
       IN IF parses(kind)
          THEN /\ pairs' = pairs @@
                    (allSlot(i, pairs) :>
                        [locale |-> localeByFile(preFiles[i]),
                         strings |-> jsonParse(preFiles[i], kind)])
               /\ prePending' = prePending \ {i}
               /\ preStage' = IF prePending' = {} THEN "compiling" ELSE "reading"
               /\ UNCHANGED <<pc, error>>
          ELSE /\ Reject(Err("LocaleReadError", preFiles[i]))
               /\ prePending' = prePending \ {i}
               /\ UNCHANGED <<pairs, preStage>>
    /\ UNCHANGED <<started, warnings, successes, files>>
    /\ UNCHANGED <<preFiles, invoked, runPending, throwing, runResult, meta, metaOnDisk>>
    /\ UNCHANGED <<validatorVars, linkVars, outVars>>
    /\ UNCHANGED <<args, dbVars, askVars>>

\* runInAllLocales build.js:88-91: the modules are compiled and one
\* execution per entry of the execution set is started
ModulesCompiled ==
    /\ pc = "Precompiling" /\ preStage = "compiling"
    /\ invoked' = executionSet([i \in 1..Len(preFiles) |-> pairs[i]])
    /\ runPending' = DOMAIN invoked'
    /\ \E bad \in SUBSET {invoked'[i].locale : i \in DOMAIN invoked'} : throwing' = bad
    /\ preStage' = "running"
    /\ UNCHANGED <<pc, started, error, warnings, successes, files>>
    /\ UNCHANGED <<preFiles, prePending, pairs, runResult, meta, metaOnDisk>>
    /\ UNCHANGED <<validatorVars, linkVars, outVars>>
    /\ UNCHANGED <<args, dbVars, askVars>>

\* build.js:91-93: one execution completes and is projected, in any order;
\* with the last one the results are merged, in the order of the execution
\* set, and the write of .meta starts
RunDone(i) ==
    /\ pc = "Precompiling" /\ preStage = "running"
    /\ i \in runPending
    /\ invoked[i].locale \notin throwing
    /\ LET results == runResult @@
                      (allSlot(i, runResult) :>
                          project(invoked[i].locale,
                                  getProperties(invoked[i].locale, invoked[i].strings)))
       IN /\ runResult' = results
          /\ runPending' = runPending \ {i}
          /\ IF runPending' = {}
             THEN /\ meta' = <<mergeResults([j \in 1..Len(invoked) |-> results[j]])>>
                  /\ preStage' = "writingMeta"
             ELSE UNCHANGED <<meta, preStage>>
    /\ UNCHANGED <<pc, started, error, warnings, successes, files>>
    /\ UNCHANGED <<preFiles, prePending, pairs, invoked, throwing, metaOnDisk>>
    /\ UNCHANGED <<validatorVars, linkVars, outVars>>
    /\ UNCHANGED <<args, dbVars, askVars>>

\* build.js:91: one execution fails; the first failure rejects all(...) and
\* with it the build
RunFail(i) ==
    /\ pc = "Precompiling" /\ preStage = "running"
    /\ i \in runPending
    /\ invoked[i].locale \in throwing
    /\ Reject(Err("SandboxExecutionError", invoked[i].locale))
    /\ runPending' = runPending \ {i}
    /\ UNCHANGED <<started, warnings, successes, files>>
    /\ UNCHANGED <<preStage, preFiles, prePending, pairs, invoked, throwing,
                   runResult, meta, metaOnDisk>>
    /\ UNCHANGED <<validatorVars, linkVars, outVars>>
    /\ UNCHANGED <<args, dbVars, askVars>>

\* a metadata file written into the project directory
metaPathInDir == pathJoin(dir, MetaFile)

\* build.js:102  fs.writeFileAsync('.meta', ...): the path is relative to
\* the working directory
metaPath == pathJoin(Cwd, MetaFile)

\* build.js:117  .thenReturn(['.meta', ...files])
withMeta(list) == <<MetaFile>> \o list

\* createMetaFile build.js:101-103 completes: .meta holds the merged
\* metadata and the file list is extended by it
MetaWritten ==
    /\ pc = "Precompiling" /\ preStage = "writingMeta"
    /\ metaOnDisk' = meta
    /\ written' = written \cup {metaPath}
    /\ files' = withMeta(files)
    /\ preStage' = "done"
    /\ Enter("Archiving")
    /\ UNCHANGED <<error, warnings, successes>>
    /\ UNCHANGED <<preFiles, prePending, pairs, invoked, runPending, throwing,
                   runResult, meta>>
    /\ UNCHANGED <<zip, projectName, target, archive, tree, dest>>
    /\ UNCHANGED <<validatorVars, linkVars>>
    /\ UNCHANGED <<args, dbVars, askVars>>

\* createMetaFile fails
MetaWriteFail ==
    /\ pc = "Precompiling" /\ preStage = "writingMeta"
    /\ Reject(Err("IOError", MetaFile))
    /\ UNCHANGED <<started, warnings, successes, files>>
    /\ UNCHANGED <<validatorVars, linkVars, preVars, outVars>>
    /\ UNCHANGED <<args, dbVars, askVars>>

\* ------------------------------------------------------------------------
\* Archive Builder: createZip build.js:225-229, addToZip build.js:275-289
\* ------------------------------------------------------------------------
\* build.js:44  defaultFileOptions = { date: new Date(1149562800000) }, the
\* date in seconds since the epoch
defaultFileOptions == [date |-> 1149562800]

\* the time the system clock shows while a build runs, in seconds: some
\* time after the release of the tool
Clock == {1500000000}

\* the names a directory met while archiving may hold, in the order
\* readdirSync lists them
ChildNames == << <<"x">>, <<"y">> >>

\* the paths a directory may hold
Kids(p) == {pathJoin(p, ChildNames[i]) : i \in DOMAIN ChildNames}

\* the sets of at most n paths found below the directories in from
RECURSIVE Forests(_, _)
Forests(from, n) ==
    IF n <= 0 THEN {{}}
    ELSE LET prev == Forests(from, n - 1)
         IN prev \cup
            UNION {{S \cup {c} : c \in UNION {Kids(q) : q \in from \cup S} \ S} : S \in prev}

\* the relative paths the build has already read as files, or written
knownRegular ==
    {IndexJs, MetaFile} \cup Range(locResult) \cup Range(acCand) \cup Range(preFiles)

\* the absolute paths lstatSync is asked about for the file list, and those
\* of them the build has itself read or written by that path
rootPaths == {pathJoin(dir, files[i]) : i \in DOMAIN files}
readPaths == {pathJoin(Cwd, f) : f \in knownRegular} \cap rootPaths

\* the types lstatSync may report that are neither file nor directory: a
\* path the build has read may still be a link to a file, any other path
\* may also be gone
OddTypes(filePath) ==
    IF filePath \in readPaths THEN {"other"} ELSE {"other", "missing"}

\* no path of the file list is given a type of its own
NoOdd == [path |-> <<>>, type |-> "none"]

\* the views of the file system an archive may be built from, path -> type:
\* some paths of the file list are directories, with paths found below them,
\* and at most one path of the file list is neither file nor directory (what
\* follows the first such path is never looked at).  Each of these counts
\* as an entry of the bound: a path that is neither file nor directory, an
\* empty directory of the file list, and each path below a directory.
TreeViews ==
    LET free == rootPaths \ readPaths
    IN UNION {UNION {UNION {
        {[q \in rootPaths \cup S |->
            IF q = odd.path THEN odd.type
            ELSE IF q \in DOMAIN leafType THEN leafType[q]
            ELSE IF q \in S \/ q \in empty \/ Kids(q) \cap S # {} THEN "dir"
            ELSE "file"] :
          odd \in {NoOdd} \cup
                  (IF Cardinality(empty) + Cardinality(S) < EntriesLeft
                   THEN UNION {[path : {q}, type : OddTypes(q)] : q \in rootPaths}
                   ELSE {})} :
        leafType \in [{q \in S : Kids(q) \cap S = {}} -> {"file", "dir", "other"}]} :
        empty \in {E \in SUBSET {q \in free : Kids(q) \cap S = {}} :
                      Cardinality(E) + Cardinality(S) <= EntriesLeft}} :
        S \in Forests(free, EntriesLeft)}

\* fs.readdirSync(filePath) in a view t
readdirSync(t, filePath) ==
    SelectSeq(ChildNames, LAMBDA n : pathJoin(filePath, n) \in DOMAIN t)

\* fs.readFileSync(filePath): the content of that path, which is the
\* metadata of this build where createMetaFile has written it
readFileSync(filePath) ==
    [of |-> filePath,
     data |-> IF filePath = metaPath THEN metaOnDisk ELSE <<>>]

\* jszip: the entries of an archive are kept by name, in the order in which
\* the names were first added
hasEntry(z, name) == \E i \in DOMAIN z : z[i].name = name
putEntry(z, e) ==
    IF hasEntry(z, e.name)
    THEN [i \in DOMAIN z |-> IF z[i].name = e.name THEN e ELSE z[i]]
    ELSE Append(z, e)

\* jszip: the name of a folder ends in a slash; the parent folder of a name
\* is what precedes its last slash
forceTrailingSlash(name) ==
    IF name # <<>> /\ name[Len(name)] = "/" THEN name ELSE name \o <<"/">>
parentFolder(name) ==
    LET q == IF name # <<>> /\ name[Len(name)] = "/"
             THEN SubSeq(name, 1, Len(name) - 1) ELSE name
        slashes == {i \in DOMAIN q : q[i] = "/"}
        last == IF slashes = {} THEN 0
                ELSE CHOOSE i \in slashes : \A j \in slashes : j <= i
    IN IF last > 1 THEN SubSeq(q, 1, last - 1) ELSE <<>>

\* jszip: a folder entry is made with no options, so its date is the
\* current date
folderEntry(name, now) ==
    [name |-> name, dir |-> TRUE, date |-> now,
     content |-> [of |-> <<>>, data |-> <<>>]]

\* jszip folderAdd: the folder and the folders above it, unless there
RECURSIVE folderAdd(_, _, _)
folderAdd(z, name, now) ==
    IF hasEntry(z, forceTrailingSlash(name)) THEN z
    ELSE LET parent == parentFolder(name)
             above == IF parent = <<>> THEN z ELSE folderAdd(z, parent, now)
         IN Append(above, folderEntry(forceTrailingSlash(name), now))

\* build.js:280  zip.file(filename, content, defaultFileOptions) in the
\* folder root: jszip first makes the folders above the name
zipFile(z, root, filename, content, now) ==
    LET name == root \o filename
        parent == parentFolder(name)
        above == IF parent = <<>> THEN z ELSE folderAdd(z, parent, now)
    IN putEntry(above, [name |-> name, dir |-> FALSE,
                        date |-> defaultFileOptions.date, content |-> content])

\* build.js:284  zip.folder(filename) in the folder root: the entry of the
\* folder, and the root of the object it returns
zipFolder(z, root, filename, now) == folderAdd(z, root \o filename, now)

\* a folder object that keeps the root of the archive it was made in
folderRootKept(root, filename) == root

\* jszip: the root of the object zip.folder(filename) returns
folderRoot(root, filename) == forceTrailingSlash(root \o filename)

\* an archive under construction: its entries, the error thrown if any, and
\* the paths lstatSync was asked about
NewZip == [zip |-> <<>>, error |-> NoError, seen |-> {}]

\* build.js:279 and build.js:283
isFile(type) == type = "file"
isDirectory(type) == type = "dir"

\* an error that names the directory in which the path was found
invalidFileTypeIn(d, filePath) == Err("UnsupportedFileType", d)

\* build.js:288  throw new Error(`Invalid file type for ${filePath}`)
invalidFileType(d, filePath) == Err("UnsupportedFileType", filePath)

\* addToZip build.js:275-289 on one filename of the directory d, for an
\* archive r, a view t and a clock: nothing once an error is thrown;
\* map(...) over the listing of a directory goes through mapAddToZip
RECURSIVE addToZip(_, _, _, _, _, _)
RECURSIVE mapAddToZip(_, _, _, _, _, _, _)
addToZip(r, t, now, root, d, filename) ==
    LET filePath == pathJoin(d, filename)
        looked == [r EXCEPT !.seen = @ \cup {filePath}]
    IN IF r.error # NoError THEN r
       ELSE IF t[filePath] = "missing"
            THEN [looked EXCEPT !.error = Err("IOError", filePath)]
       ELSE IF isFile(t[filePath])
            THEN [looked EXCEPT !.zip =
                     zipFile(@, root, filename, readFileSync(filePath), now)]
       ELSE IF isDirectory(t[filePath])
            THEN mapAddToZip(looked, t, now, root, filename, filePath,
                             readdirSync(t, filePath))
       ELSE [looked EXCEPT !.error = invalidFileType(d, filePath)]

\* build.js:284-285  map(file => addToZip(zip.folder(filename), filePath, file), ...)
mapAddToZip(r, t, now, root, filename, filePath, listing) ==
    IF listing = <<>> \/ r.error # NoError THEN r
    ELSE mapAddToZip(
            addToZip([r EXCEPT !.zip = zipFolder(@, root, filename, now)],
                     t, now, folderRoot(root, filename), filePath, Head(listing)),
            t, now, root, filename, filePath, Tail(listing))

\* createZip build.js:225-229  files.forEach(filename => addToZip(zip, dir, filename))
RECURSIVE forEachAddToZip(_, _, _, _)
forEachAddToZip(r, t, now, list) ==
    IF list = <<>> THEN r
    ELSE forEachAddToZip(addToZip(r, t, now, <<>>, dir, Head(list)), t, now, Tail(list))
createZip(t, now) == forEachAddToZip(NewZip, t, now, files)

\* createZip runs in one piece: it adds the files in order and stops at the
\* first path that makes addToZip throw
CreateZip ==
    /\ pc = "Archiving"
    /\ \E t \in TreeViews : \E now \in Clock :
        LET r == createZip(t, now)
        IN /\ zip' = r.zip
           /\ tree' = IF r.error = NoError THEN t ELSE [q \in r.seen |-> t[q]]
           /\ IF r.error = NoError
              THEN /\ Enter("ResolvingOutput")
                   /\ UNCHANGED error
              ELSE /\ Reject(r.error)
                   /\ UNCHANGED started
    /\ UNCHANGED <<warnings, successes, files, projectName, target, archive,
                   dest, written>>
    /\ UNCHANGED <<validatorVars, linkVars, preVars>>
    /\ UNCHANGED <<args, dbVars, askVars>>

\* ------------------------------------------------------------------------
\* Output Resolver and archive write: getProjectName build.js:212-216,
\* resolveOutputTarget build.js:239-248, saveZip build.js:257-266
\* ------------------------------------------------------------------------
Widget   == <<"w","i","d","g","e","t">>
Gadget   == <<"g","a","d","g","e","t">>
DotRung  == <<".","r","u","n","g">>
\* the names the name field of package.json may hold
PackageNames == {Widget, Gadget}

\* a resolver that appends the file name whatever the destination is
resolveOutputTargetAppending(realPath, found, filename) == pathJoin(realPath, filename)

\* build.js:242-245  the target for a destination that lstatSync finds to be
\* a directory, finds to be something else, or does not find (it throws)
resolveOutputTarget(realPath, found, filename) ==
    IF found = "dir" THEN pathJoin(realPath, filename) ELSE realPath

\* build.js:305 and build.js:240  realPath = path.resolve('.', args.output || '.')
RealPath == pathResolve(orElse(args.output, <<".">>))

\* what lstatSync may find at the destination: the working directory is a
\* directory, any other path may be a directory, something else, or nothing
DestKinds == IF RealPath = Cwd THEN {"dir"} ELSE {"dir", "file", "missing"}

\* a file name without the extension
archiveNameBare(name) == name

\* build.js:258  `${name}.rung`
archiveName(name) == name \o DotRung

\* build.js:215  new Error('Failed to parse package.json from the project')
FailedToParse ==
    <<"F","a","i","l","e","d"," ","t","o"," ","p","a","r","s","e"," ">>
    \o PackageJson \o MissingSuffix

\* an error like the one filterFiles throws for a missing package.json
manifestErrorAsMissing ==
    Err("MissingRequiredFiles", missingMessage(<<PackageJson>>))

\* build.js:215  .catchThrow(new Error(...))
manifestError == Err("ManifestParseError", FailedToParse)

\* whether readFile(path.join(dir, 'package.json')) can succeed: not when
\* the path was archived as a directory
manifestReadable == tree[pathJoin(dir, PackageJson)] = "file"

\* getProjectName completes with the name; saveZip resolves the target and
\* starts streaming the archive into it
ProjectNameRead ==
    /\ pc = "ResolvingOutput"
    /\ manifestReadable
    /\ \E name \in PackageNames : \E found \in DestKinds :
        /\ projectName' = <<name>>
        /\ dest' = <<found>>
        /\ target' = <<resolveOutputTarget(RealPath, found, archiveName(name))>>
    /\ Enter("Writing")
    /\ UNCHANGED <<error, warnings, successes, files, zip, archive, tree, written>>
    /\ UNCHANGED <<validatorVars, linkVars, preVars>>
    /\ UNCHANGED <<args, dbVars, askVars>>

\* build.js:215  package.json cannot be read or parsed
ProjectNameFail ==
    /\ pc = "ResolvingOutput"
    /\ Reject(manifestError)
    /\ UNCHANGED <<started, warnings, successes, files>>
    /\ UNCHANGED <<validatorVars, linkVars, preVars, outVars>>
    /\ UNCHANGED <<args, dbVars, askVars>>

\* build.js:262-264  the stream has written the file at target and
\* finishes: the promise resolves with target
WriteFinish ==
    /\ pc = "Writing" /\ archive = "none"
    /\ archive' = "complete"
    /\ written' = written \cup {Head(target)}
    /\ UNCHANGED <<pc, started, error, warnings, successes, files>>
    /\ UNCHANGED <<zip, projectName, target, tree, dest>>
    /\ UNCHANGED <<validatorVars, linkVars, preVars>>
    /\ UNCHANGED <<args, dbVars, askVars>>

\* build.js:263  the write stream fails, before or after it created the file
WriteError ==
    /\ pc = "Writing" /\ archive = "none"
    /\ \E left \in {"none", "partial"} :
        /\ archive' = left
        /\ written' = IF left = "none" THEN written ELSE written \cup {Head(target)}
    /\ Reject(Err("IOError", Head(target)))
    /\ UNCHANGED <<started, warnings, successes, files>>
    /\ UNCHANGED <<zip, projectName, target, tree, dest>>
    /\ UNCHANGED <<validatorVars, linkVars, preVars>>
    /\ UNCHANGED <<args, dbVars, askVars>>

\* a promise that resolves as soon as the stream is set up
streamOpened == archive \in {"none", "complete"}

\* build.js:264  what saveZip's promise waits for before it resolves
streamFinished == archive = "complete"

\* build.js:306  .tap(() => emitSuccess(...)) once saveZip has resolved
EmitSuccess ==
    /\ pc = "Writing" /\ streamFinished
    /\ successes' = successes + 1
    /\ Enter("Done")
    /\ UNCHANGED <<error, warnings, files>>
    /\ UNCHANGED <<validatorVars, linkVars, preVars, outVars>>
    /\ UNCHANGED <<args, dbVars, askVars>>

\* ------------------------------------------------------------------------
\* The build
\* ------------------------------------------------------------------------
Next ==
    \/ ReadDirDone
    \/ ReadDirFail
    \/ IndexInspected
    \/ IndexFail
    \/ ListLocales
    \/ \E f \in locPending : LocaleChecked(f)
    \/ ListAutoComplete
    \/ \E f \in acPending : ScriptChecked(f)
    \/ LinkJoin
    \/ \E i \in prePending : LocaleRead(i)
    \/ ModulesCompiled
    \/ \E i \in runPending : RunDone(i)
    \/ \E i \in runPending : RunFail(i)
    \/ MetaWritten
    \/ MetaWriteFail
    \/ CreateZip
    \/ ProjectNameRead
    \/ ProjectNameFail
    \/ WriteFinish
    \/ WriteError
    \/ EmitSuccess

Spec == Init /\ [][Next]_vars

\* ------------------------------------------------------------------------
\* The database module: build.js:309-433 (db.js)
\* ------------------------------------------------------------------------
\* the values an extension may hand over as its store
Undefined == [type |-> "Undefined", counter |-> 0]
AFunction == [type |-> "Function", counter |-> 0]
Null      == [type |-> "Null", counter |-> 0]
CounterOne == [type |-> "Object", counter |-> 1]
CounterTwo == [type |-> "Object", counter |-> 2]
NotANumber == [type |-> "Number", counter |-> 0]
StorePool == {Undefined, AFunction, Null, CounterOne, CounterTwo, NotANumber}

\* ramda type(input), as it appears in a message
typeName(input) ==
    CASE input.type = "Undefined" -> <<"U","n","d","e","f","i","n","e","d">>
      [] input.type = "Function"  -> <<"F","u","n","c","t","i","o","n">>
      [] input.type = "Null"      -> <<"N","u","l","l">>
      [] input.type = "Number"    -> <<"N","u","m","b","e","r">>
      [] OTHER                    -> <<"O","b","j","e","c","t">>

\* the digits of a counter
digit(n) == <<"0","1","2","3","4","5","6","7","8","9">>[n + 1]

\* JSON.stringify(input): <<text>>, or <<>> where it returns undefined; a
\* number that is not finite is written as null
stringify(input) ==
    CASE input.type = "Object" ->
            << <<"{","\"","c","o","u","n","t","e","r","\"",":">>
               \o <<digit(input.counter)>> \o <<"}">> >>
      [] input.type \in {"Null", "Number"} -> << <<"n","u","l","l">> >>
      [] OTHER -> <<>>

\* a database file that was cut off while it was written
Garbage == <<"{","\"","c","o","u","n","t","e","r","\"",":">>

\* JSON.parse(text) returns for null and for {"counter":d}, throws otherwise
parsesText(text) ==
    \/ text = <<"n","u","l","l">>
    \/ /\ Len(text) = Len(Garbage) + 2
       /\ SubSeq(text, 1, Len(Garbage)) = Garbage
       /\ \E n \in 0..9 : digit(n) = text[Len(text) - 1]
       /\ text[Len(text)] = "}"

\* JSON.parse(text) where it returns
jsonParseText(text) ==
    IF text = <<"n","u","l","l">> THEN Null
    ELSE [type |-> "Object",
          counter |-> CHOOSE n \in 0..9 : digit(n) = text[Len(text) - 1]]

\* build.js:349-351  location(name): one file per database name
locationShared(name) == "alpha"
location(name) == name

\* build.js:336-341  serialize(input): the text, or the rejection
unsupportedType(input) == Err("UnsupportedType", typeName(input))
serializes(input) == stringify(input) # <<>>

\* a call of the module: what was called with what, how far it has come,
\* what its promise resolved or rejected with, and the calls the caller had
\* seen settle before it made this one
settled == {"resolved", "rejected"}
NewCall(op, name, store, stage) ==
    [op |-> op, name |-> name, store |-> store, stage |-> stage,
     result |-> Undefined, error |-> NoError,
     after |-> {j \in DOMAIN calls : calls[j].stage \in settled}]

\* the calls a program makes are bounded
MaxCalls == 2

\* the promise of call i settles
resolved(i, value) ==
    calls' = [calls EXCEPT ![i].stage = "resolved", ![i].result = value]
rejected(i, e) ==
    calls' = [calls EXCEPT ![i].stage = "rejected", ![i].error = e]

\* after resolveRungFolder: serialize(store), then createFile is started
\* or the call is rejected (build.js:375-376)
afterFolderWriting(call) == [call EXCEPT !.stage = "write"]
afterFolder(call) ==
    IF serializes(call.store)
    THEN [call EXCEPT !.stage = "write"]
    ELSE [call EXCEPT !.stage = "rejected", !.error = unsupportedType(call.store)]

\* an upsert that does what its comment says of an undefined store: it
\* drops the file
upsertUndefinedDrops(name) == [dbFiles EXCEPT ![name] = <<>>]

\* build.js:372-373  store === undefined ? resolve() : ...
upsertUndefined(name) == dbFiles

\* upsert(name, store) build.js:370-377 is called: an undefined store
\* resolves at once; otherwise resolveRungFolder (build.js:397-407) looks at
\* ~/.rung, goes on if it is a directory, rejects if it is something else,
\* and starts to create it if it is missing
Upsert(name, store) ==
    /\ Len(calls) < MaxCalls
    /\ IF store = Undefined
       THEN /\ calls' = Append(calls, NewCall("upsert", name, store, "resolved"))
            /\ dbFiles' = upsertUndefined(name)
       ELSE /\ dbFiles' = dbFiles
            /\ calls' = Append(calls,
                 CASE rungFolder = "dir" ->
                        afterFolder(NewCall("upsert", name, store, "folder"))
                   [] rungFolder = "notdir" ->
                        [NewCall("upsert", name, store, "rejected")
                            EXCEPT !.error = Err("NotADirectory", <<>>)]
                   [] OTHER -> NewCall("upsert", name, store, "mkdir"))
    /\ UNCHANGED rungFolder
    /\ UNCHANGED <<buildVars, askVars>>

\* build.js:403  createFolder(folder) completes: the folder is there, or the
\* call is rejected because something of that name is there by now
MkdirDone(i) ==
    /\ calls[i].stage = "mkdir"
    /\ IF rungFolder = "missing"
       THEN /\ rungFolder' = "dir"
            /\ calls' = [calls EXCEPT ![i] = afterFolder(@)]
       ELSE /\ rejected(i, Err("EEXIST", <<>>))
            /\ UNCHANGED rungFolder
    /\ UNCHANGED dbFiles
    /\ UNCHANGED <<buildVars, askVars>>

\* build.js:376  createFile(location(name), value) completes
WriteDone(i) ==
    /\ calls[i].stage = "write"
    /\ dbFiles' = [dbFiles EXCEPT ![location(calls[i].name)] =
                                        stringify(calls[i].store)]
    /\ resolved(i, Undefined)
    /\ UNCHANGED rungFolder
    /\ UNCHANGED <<buildVars, askVars>>

\* read(name) build.js:385-390 is called: the file is being read
Read(name) ==
    /\ Len(calls) < MaxCalls
    /\ calls' = Append(calls, NewCall("read", name, Undefined, "read"))
    /\ UNCHANGED <<rungFolder, dbFiles>>
    /\ UNCHANGED <<buildVars, askVars>>

\* build.js:387-388  readFile(file, 'utf-8').then(JSON.parse): the parsed
\* text, or the failure of the read or of the parse
readParsed(file) ==
    IF file = <<>> \/ ~parsesText(Head(file))
    THEN [ok |-> FALSE, value |-> Undefined]
    ELSE [ok |-> TRUE, value |-> jsonParseText(Head(file))]

\* build.js:389  .catchReturn(undefined)
catchReturnUndefined(outcome) ==
    [ok |-> TRUE, value |-> IF outcome.ok THEN outcome.value ELSE Undefined]

\* build.js:387-389  the read completes
ReadDone(i) ==
    /\ calls[i].stage = "read"
    /\ LET outcome ==
            catchReturnUndefined(readParsed(dbFiles[location(calls[i].name)]))
       IN IF outcome.ok
          THEN resolved(i, outcome.value)
          ELSE rejected(i, Err("ReadFailed", <<>>))
    /\ UNCHANGED <<rungFolder, dbFiles>>
    /\ UNCHANGED <<buildVars, askVars>>

\* clear(name) build.js:359-361 is called: rimraf is removing the file
Clear(name) ==
    /\ Len(calls) < MaxCalls
    /\ calls' = Append(calls, NewCall("clear", name, Undefined, "rm"))
    /\ UNCHANGED <<rungFolder, dbFiles>>
    /\ UNCHANGED <<buildVars, askVars>>

\* build.js:360  rm is rimraf 2.6.1 with its default options: a path with
\* glob characters that is not itself a file is expanded as a pattern, and
\* every file it matches is removed
Star == "*"
hasMagic(name) == name = Star
globbed(name) ==
    IF hasMagic(name)
    THEN {n \in DbNames : dbFiles[location(n)] # <<>>}
    ELSE {location(name)}

\* build.js:360  rimraf completes: the files are gone, if they were there
ClearDone(i) ==
    /\ calls[i].stage = "rm"
    /\ dbFiles' = [n \in DbNames |->
                     IF n \in globbed(calls[i].name) THEN <<>> ELSE dbFiles[n]]
    /\ resolved(i, Undefined)
    /\ UNCHANGED rungFolder
    /\ UNCHANGED <<buildVars, askVars>>

\* the module as a program with ~/.rung in any state uses it; where ~/.rung
\* is a directory the file of one database may be there, damaged
InitDb ==
    /\ BuildStart([project |-> <<>>, output |-> <<>>])
    /\ rungFolder \in {"missing", "dir", "notdir"}
    /\ \E damaged \in (IF rungFolder = "dir" THEN {<<>>, <<Garbage>>} ELSE {<<>>}) :
          dbFiles = [n \in DbNames |-> IF n = "beta" THEN damaged ELSE <<>>]
    /\ AskIdle
    /\ calls = <<>>

NextDb ==
    \/ \E name \in DbNames : \E store \in StorePool : Upsert(name, store)
    \/ \E i \in DOMAIN calls : MkdirDone(i)
    \/ \E i \in DOMAIN calls : WriteDone(i)
    \/ \E name \in DbNames : Read(name)
    \/ \E i \in DOMAIN calls : ReadDone(i)
    \/ \E name \in DbNames \cup {Star} : Clear(name)
    \/ \E i \in DOMAIN calls : ClearDone(i)

SpecDb == InitDb /\ [][NextDb]_vars

\* ------------------------------------------------------------------------
\* Interactive input: ask, unnamed/part_000:126-150 (input.js)
\* ------------------------------------------------------------------------
\* the prompts one call of ask may write are bounded
MaxPrompts == 3

\* JavaScript values an answer resolves to
Nil     == [type |-> "Null", text |-> <<>>]
Missing == [type |-> "Undefined", text |-> <<>>]
StringOf(text) == [type |-> "String", text |-> text]
NumberOf(text) == [type |-> "Number", text |-> text]

\* the lines a user may type: nothing, a blank, a digit
Answers == {<<>>, <<" ">>, <<"7">>}

\* String.prototype.trim for these lines
trim(text) == SelectSeq(text, LAMBDA c : c # " ")

\* the question sets: one or two questions, each of a type, required or not,
\* with a default or without one
QuestionKeys == {<<>>, <<"name">>, <<"language">>, <<"name", "language">>}
QuestionPool ==
    UNION {{[i \in DOMAIN ks |->
                [key |-> ks[i], type |-> "String",
                 def |-> d[i], required |-> r[i]]] :
              d \in [DOMAIN ks -> {Missing, StringOf(<<"d">>)}],
              r \in [DOMAIN ks -> BOOLEAN]} : ks \in QuestionKeys}

\* ramda keys(questions)
keysOf(qs) == [i \in DOMAIN qs |-> qs[i].key]

\* questions[head]
questionOf(qs, key) == CHOOSE q \in Range(qs) : q.key = key

\* part_000:113  cast(text, type) of ./types: null for a line that is no
\* value of the type, and otherwise the line as a string or its number
castResults(text, type) ==
    {Nil, StringOf(text)} \cup
    (IF trim(text) # <<>> THEN {NumberOf(trim(text))} ELSE {})

\* part_000:114  is(String, value) && value.trim() === ''
isEmptyString(value) == value.type = "String" /\ trim(value.text) = <<>>

\* part_000:108-117  resolveValue(text, type, def, required), given what cast
\* returns for the text
resolveValue(text, nativeValue, def, required) ==
    IF required /\ trim(text) = <<>> THEN Nil
    ELSE IF nativeValue = Nil \/ isEmptyString(nativeValue) THEN def
    ELSE nativeValue

\* ramda isNil(value)
isNilNullOnly(value) == value.type = "Null"
isNil(value) == value.type \in {"Null", "Undefined"}

\* part_000:83-95  triggerWarnings: one warning per question with both a
\* default and required, one for a question named language
fieldWarnings(qs) ==
    Cardinality({i \in DOMAIN qs : qs[i].def # Missing /\ qs[i].required})
languageWarnings(qs) ==
    IF \E i \in DOMAIN qs : qs[i].key = "language" THEN 1 ELSE 0

\* the prompt of a question whose answer has not come
Pending == [type |-> "Pending", text |-> <<>>]

\* part_000:128-145  recur(remaining, answered, callback), with the prompts
\* written so far: the next question is prompted (io.read), or the input is
\* closed and the promise resolved
recur(rem, ans, log) ==
    IF Len(rem) > 0
    THEN /\ Len(log) < MaxPrompts
         /\ asked' = Append(log, [key |-> Head(rem), value |-> Pending])
         /\ remaining' = rem
         /\ answered' = ans
         /\ askStage' = "waiting"
         /\ UNCHANGED <<closes, resolvedWith>>
    ELSE /\ asked' = log
         /\ remaining' = rem
         /\ answered' = ans
         /\ closes' = closes + 1
         /\ resolvedWith' = <<ans>>
         /\ askStage' = "resolved"

\* part_000:148-149  triggerWarnings(io, questions) has emitted its
\* warnings and recur is started on all the keys
TriggerWarnings ==
    /\ askStage = "warnings"
    /\ askWarnings' = fieldWarnings(questions) + languageWarnings(questions)
    /\ recur(keysOf(questions), <<>>, <<>>)
    /\ UNCHANGED questions
    /\ UNCHANGED <<buildVars, dbVars>>

\* part_000:134-142  the user's line arrives: its value is resolved, and
\* recur goes on with the same question when the value is null or
\* undefined, with the next one otherwise
Answer(text) ==
    /\ askStage = "waiting"
    /\ LET head == Head(remaining)
           q == questionOf(questions, head)
       IN \E nativeValue \in castResults(text, q.type) :
            LET value == resolveValue(text, nativeValue, q.def, q.required)
                log == [asked EXCEPT ![Len(asked)].value = value]
            IN IF isNil(value)
               THEN recur(remaining, answered, log)
               ELSE recur(Tail(remaining),
                          answered \o <<[key |-> head, value |-> value]>>,
                          log)
    /\ UNCHANGED <<questions, askWarnings>>
    /\ UNCHANGED <<buildVars, dbVars>>

\* ask(questions) has been called with one of the question sets
InitAsk ==
    /\ BuildStart([project |-> <<>>, output |-> <<>>])
    /\ DbStart
    /\ questions \in QuestionPool
    /\ askStage = "warnings"
    /\ askWarnings = 0
    /\ remaining = <<>>
    /\ answered = <<>>
    /\ asked = <<>>
    /\ closes = 0
    /\ resolvedWith = <<>>

NextAsk ==
    \/ TriggerWarnings
    \/ \E text \in Answers : Answer(text)

SpecAsk == InitAsk /\ [][NextAsk]_vars

\* ------------------------------------------------------------------------
\* Properties of the build
\* ------------------------------------------------------------------------
IsPrefix(s, t) == Len(s) <= Len(t) /\ SubSeq(t, 1, Len(s)) = s

\* the name of a locale file as the specification describes it: two or three
\* lowercase letters, optionally an underscore and two or three uppercase
\* letters, then .json
specLocalePattern(name) == LocaleShape(name, {2, 3}, {2, 3})

\* the locale code a locale file is named after
specLocaleCode(name) == SubSeq(name, 1, Len(name) - 5)

localePath(i) == pathJoin(LocalesDir, localesFs.entries[i])

\* the entries of the locales directory that are locale files with a JSON
\* object in them, and those that bear such a name without one
validLocaleEntries ==
    {i \in DOMAIN localesFs.entries :
        specLocalePattern(localesFs.entries[i]) /\ localesFs.content[i] = "object"}
brokenLocaleEntries ==
    {i \in DOMAIN localesFs.entries :
        specLocalePattern(localesFs.entries[i]) /\ localesFs.content[i] # "object"}

\* C1: when the listing of the project directory lacks package.json,
\* index.js or both, the build fails in the File Validator, and the message
\* of its error names each mandatory file that is missing and none of the
\* files that are present.
C1_MissingFilesAllNamed ==
    (vstep # "readdir" /\ ~({PackageJson, IndexJs} \subseteq top)) =>
        /\ pc = "Failed"
        /\ started = <<"Validating">>
        /\ error.kind = "MissingRequiredFiles"
        /\ \A f \in {PackageJson, IndexJs, IconPng} :
              Occurs(f, error.subject) <=> (f \in {PackageJson, IndexJs} /\ f \notin top)

\* both mandatory files are missing while icon.png is there
C1_Witness ==
    /\ top = {IconPng}
    /\ vstep = "rejected"
    /\ pc = "Failed"
    /\ Occurs(PackageJson, error.subject)
    /\ Occurs(IndexJs, error.subject)

\* C2: the stages are started in the order Validating, Linking,
\* Precompiling, Archiving, ResolvingOutput, Writing, Done, none of them
\* twice; a failure puts the build in the failure state, after which no
\* stage is started and nothing is written: .meta exists only once
\* Precompiling was reached, the archive only once Writing was reached.
C2_StagesInOrder ==
    /\ [](/\ IsPrefix(started, Stages)
          /\ pc # "Failed" => pc = started[Len(started)]
          /\ error # NoError => pc = "Failed"
          /\ metaOnDisk # <<>> => contains("Precompiling", started)
          /\ zip # <<>> => contains("Archiving", started)
          /\ archive # "none" => contains("Writing", started))
    /\ [][error # NoError => UNCHANGED <<started, metaOnDisk, zip, archive>>]_vars

\* the build failed while linking, with nothing written
C2_Witness ==
    /\ pc = "Failed"
    /\ started = <<"Validating", "Linking">>
    /\ error.kind = "ImportViolation"
    /\ metaOnDisk = <<>>
    /\ archive = "none"

\* C3: a build has one outcome.  It succeeds, with the success message
\* emitted once, only when the archive's write stream has finished and the
\* target path is known, and then it has no error; or it fails with one
\* error, the first one raised, which is never replaced, and the success
\* message is not emitted.
C3_SingleOutcome ==
    /\ [](/\ successes <= 1
          /\ (pc = "Done") <=> (successes = 1)
          /\ (pc = "Failed") <=> (error # NoError)
          /\ successes = 1 => /\ archive = "complete"
                              /\ target # <<>>
                              /\ error = NoError)
    /\ [][error # NoError => error' = error /\ successes' = successes]_vars

\* the build succeeded
C3_Witness ==
    /\ pc = "Done"
    /\ successes = 1
    /\ archive = "complete"

\* C4: once linkLocales is done, the locale files it adds are those entries
\* of the locales directory whose name is a two-or-three-letter language
\* code, optionally with a two-or-three-letter region code, plus .json, and
\* whose content is a JSON object; they are in the file list after linking.
C4_LinkerAddsSpecLocales ==
    /\ locStage = "done" =>
          Range(locResult) = {localePath(i) : i \in validLocaleEntries}
    /\ (pc \in {"Precompiling", "Archiving", "ResolvingOutput", "Writing", "Done"}) =>
          \A i \in validLocaleEntries : contains(localePath(i), files)

\* C5: once the executions are started, there is one for 'default' with an
\* empty string table and one for each locale file the File Linker linked,
\* with that file's locale code and string table, and no other: 1 plus the
\* number of linked locale files.
C5_OneRunPerLinkedLocale ==
    invoked # <<>> =>
        /\ Len(invoked) = 1 + Len(locResult)
        /\ Cardinality({i \in DOMAIN invoked :
                invoked[i] = [locale |-> DefaultLocale, strings |-> EmptyStrings]}) = 1
        /\ \A f \in Range(locResult) :
              Cardinality({i \in DOMAIN invoked :
                  invoked[i] = [locale |-> specLocaleCode(drop(8, f)),
                                strings |-> [kind |-> "object", of |-> f]]}) = 1

\* C6: in the merged metadata, title, description and preview each have the
\* key 'default' and one key per valid locale file of the project, no other
\* key, and under each key the value the execution in that locale returned.
C6_MergedKeysAllLocales ==
    meta # <<>> =>
        LET keys == {DefaultLocale} \cup
                    {specLocaleCode(localesFs.entries[i]) : i \in validLocaleEntries}
        IN \A field \in {"title", "description", "preview"} :
              /\ DOMAIN meta[1][field] = keys
              /\ \A k \in keys : meta[1][field][k] = [field |-> field, run |-> k]

\* what C7 says of one entry of the locales directory: it is not linked,
\* not in the file list that linking hands on, not read for an execution
\* and not the cause of a failure
LeftOut(i) ==
    /\ locStage = "done" => ~contains(localePath(i), locResult)
    /\ contains("Precompiling", started) => ~contains(localePath(i), files)
    /\ ~contains(localePath(i), preFiles)
    /\ \A j \in DOMAIN invoked : invoked[j].strings.of # localePath(i)
    /\ error.subject # localePath(i)

\* C7 as stated: every entry of the locales directory that is named like a
\* locale file but holds no JSON object is left out of the file list, is
\* not passed to the Sandbox Runner and does not fail the build.
C7_BrokenLocaleLeftOut ==
    \A i \in brokenLocaleEntries : LeftOut(i)

\* C7, amended: the same for every such entry that index.js does not
\* itself declare as a local dependency.
C7_BrokenUndeclaredLocaleLeftOut ==
    \A i \in brokenLocaleEntries :
        ~contains(DotSlash \o localePath(i), modules) => LeftOut(i)

\* a file with invalid JSON was listed, linking went on without it and the
\* build succeeded
C7_Witness ==
    /\ pc = "Done"
    /\ \E i \in brokenLocaleEntries :
          /\ localesFs.content[i] = "invalid"
          /\ linkLocalePattern(localesFs.entries[i])
          /\ ~contains(localePath(i), files)

\* the locale files precompile reads that cannot be read or parsed, and the
\* executions in which the extension throws, as far as they have completed
failedReads ==
    {i \in DOMAIN preFiles :
        /\ i \notin prePending
        /\ entryKind(localesFs, LocalesDir, preFiles[i]) \in {"invalid", "missing"}}
failedRuns ==
    {i \in DOMAIN invoked : i \notin runPending /\ invoked[i].locale \in throwing}

\* C8: when the read or parse of a locale file fails in precompilation, or
\* an execution of the extension fails, the build fails with the error of
\* such a failure; as long as a locale file of the file list cannot be
\* parsed or the extension throws in some locale, no .meta is written and
\* no archive is built or written.
C8_PrecompileFailureAborts ==
    /\ failedReads # {} =>
          /\ pc = "Failed"
          /\ error \in {Err("LocaleReadError", preFiles[i]) : i \in failedReads}
    /\ failedRuns # {} =>
          /\ pc = "Failed"
          /\ error \in {Err("SandboxExecutionError", invoked[i].locale) : i \in failedRuns}
    /\ (\/ \E i \in DOMAIN preFiles :
              entryKind(localesFs, LocalesDir, preFiles[i]) \in {"invalid", "missing"}
        \/ throwing # {}) =>
          /\ metaOnDisk = <<>>
          /\ zip = <<>>
          /\ archive = "none"

\* a locale file with invalid JSON, which linking had only dropped, failed
\* the build in precompilation
C8_Witness ==
    /\ pc = "Failed"
    /\ error.kind = "LocaleReadError"
    /\ entryKind(localesFs, LocalesDir, error.subject) = "invalid"
    /\ ~contains(error.subject, locResult)
    /\ metaOnDisk = <<>>

\* what C9 says of a build: no failure on a locale file, no locale file in
\* the file list, one execution, for 'default', and its projected result as
\* the metadata, keyed by 'default' alone
DefaultOnly ==
    /\ locStage = "done"
    /\ locResult = <<>>
    /\ error.kind # "LocaleReadError"
    /\ contains("Precompiling", started) =>
          \A f \in Range(files) : ~startsWith(LocalesDir, f)
    /\ invoked # <<>> =>
          invoked = <<[locale |-> DefaultLocale, strings |-> EmptyStrings]>>
    /\ meta # <<>> =>
          /\ meta[1] = runResult[1]
          /\ \A field \in {"title", "description", "preview"} :
                /\ DOMAIN meta[1][field] = {DefaultLocale}
                /\ meta[1][field][DefaultLocale] = [field |-> field, run |-> DefaultLocale]
          /\ \A p \in DOMAIN meta[1].params :
                DOMAIN meta[1].params[p].description = {DefaultLocale}
    /\ metaOnDisk # <<>> => metaOnDisk = meta

\* C9 as stated: when there is no locales directory, or locales is no
\* directory, the build has the default locale only.
C9_NoLocalesDir ==
    localesFs.kind \in {"absent", "notdir"} => DefaultOnly

\* C9, amended: the same when, in addition, index.js declares no local
\* dependency inside locales.
C9_NoLocalesDirNoneDeclared ==
    (/\ localesFs.kind \in {"absent", "notdir"}
     /\ \A m \in Range(modules) : ~startsWith(DotSlash \o LocalesDir, m)) => DefaultOnly

\* a build without a locales directory succeeded on the default locale
C9_Witness ==
    /\ pc = "Done"
    /\ localesFs.kind = "absent"
    /\ Len(invoked) = 1
    /\ metaOnDisk = meta
    /\ DOMAIN meta[1].title = {DefaultLocale}

\* the scripts of the autocomplete directory that ensureNoImports rejects,
\* and the scripts whose check has completed with a failure
importingScripts ==
    {f \in Range(acCand) : entryKind(autoFs, AutoDir, f) = "imports"}
failedScripts ==
    {f \in Range(acCand) \ acPending : entryKind(autoFs, AutoDir, f) # "clean"}

\* the error the check of a failing script ends with
scriptError(f) ==
    IF entryKind(autoFs, AutoDir, f) = "imports"
    THEN Err("ImportViolation", f) ELSE Err("ReadError", f)

\* that nothing of the later stages has happened
NothingBuilt ==
    /\ pc \in {"Linking", "Failed"}
    /\ started = <<"Validating", "Linking">>
    /\ metaOnDisk = <<>>
    /\ zip = <<>>
    /\ archive = "none"

\* C10 as stated: a build that has failed with scripts in the autocomplete
\* directory that ensureNoImports rejects has the error naming each of them,
\* and has written neither .meta nor the archive.
C10_ErrorNamesEveryRejected ==
    importingScripts # {} =>
        /\ NothingBuilt
        /\ pc = "Failed" => \A f \in importingScripts : error = Err("ImportViolation", f)

\* C10, amended: with a script that ensureNoImports rejects the build does
\* not get past linking and writes neither .meta nor the archive; once the
\* check of such a script has completed the build has failed, and its error
\* is that of a script whose check failed, the first to do so: the error
\* naming a rejected script, or the read error of a script.
C10_FirstFailedScriptNamed ==
    /\ importingScripts # {} => NothingBuilt
    /\ (\E f \in importingScripts : f \notin acPending) =>
          /\ pc = "Failed"
          /\ Cardinality(failedScripts) = 1
          /\ \A f \in failedScripts : error = scriptError(f)

\* two scripts with imports: the build failed naming one, the check of the
\* other never counted
C10_Witness ==
    /\ pc = "Failed"
    /\ Cardinality(importingScripts) = 2
    /\ \E f \in importingScripts : error = Err("ImportViolation", f)
    /\ locStage # "done"

\* ------------------------------------------------------------------------
\* Properties of the archive and of the output
\* ------------------------------------------------------------------------
\* C11: every entry of the archive, the folder entries included, carries the
\* date of defaultFileOptions, whatever the clock shows during the build.
C11_EveryEntryFixedDate ==
    \A i \in DOMAIN zip : zip[i].date = defaultFileOptions.date

\* C12: .meta is written at the root of the project directory, with or
\* without a directory argument, and the archive of a build that got past
\* archiving holds .meta with the merged metadata of this build.
C12_MetaAtProjectRoot ==
    /\ metaOnDisk # <<>> => metaPathInDir \in written
    /\ contains("ResolvingOutput", started) =>
          \E i \in DOMAIN zip :
              /\ zip[i].name = MetaFile
              /\ ~zip[i].dir
              /\ zip[i].content.data = meta

C14_DirectoryGetsProjectName ==
    /\ (target # <<>> /\ args.output = <<>>) => (RealPath = Cwd /\ dest = <<"dir">>)
    /\ dest = <<"dir">> =>
          /\ projectName # <<>>
          /\ target = <<RealPath \o <<"/">> \o Head(projectName) \o DotRung>>
    /\ dest = <<"file">> => target = <<RealPath>>

\* a build with -o naming a directory has written <name>.rung into it
C14_Witness ==
    /\ pc = "Done"
    /\ args.output = <<OutputArg>>
    /\ dest = <<"dir">>
    /\ projectName = <<Gadget>>
    /\ (Cwd \o <<"/">> \o OutputArg \o <<"/">> \o Gadget \o DotRung) \in written

\* the messages the File Validator may fail with
missingFileMessages ==
    {missingMessage(m) : m \in {<<PackageJson>>, <<IndexJs>>, <<PackageJson, IndexJs>>}}

\* C15: a build that got to read the project name and could not read or
\* parse package.json has failed with 'Failed to parse package.json from the
\* project', which is none of the File Validator's messages, and has no
\* archive file; a build goes on to write only with a package.json that is
\* a file.
C15_ManifestErrorDedicated ==
    /\ (contains("ResolvingOutput", started) /\ ~manifestReadable) =>
          pc \in {"ResolvingOutput", "Failed"}
    /\ (pc = "Failed" /\ started[Len(started)] = "ResolvingOutput") =>
          /\ error.kind = "ManifestParseError"
          /\ error.subject = FailedToParse
          /\ error.subject \notin missingFileMessages
          /\ archive = "none"
          /\ target = <<>>
          /\ written \subseteq {metaPath}
    /\ error.kind = "MissingRequiredFiles" => started = <<"Validating">>

\* package.json is a directory: it was archived as one, and the build
\* failed when it came to read the name
C15_Witness ==
    /\ pc = "Failed"
    /\ error = Err("ManifestParseError", FailedToParse)
    /\ tree[pathJoin(dir, PackageJson)] = "dir"
    /\ zip # <<>>
    /\ archive = "none"

\* the file list linking produces for the modules of index.js and the
\* listings of the two directories, given in some order
linkedOrder(mods, localeNames, scriptNames) ==
    linkedFiles(initialFiles(mods, top),
                SelectSeq(localeCandidates(localeNames),
                          LAMBDA f : isLocaleObject(entryKind(localesFs, LocalesDir, f))),
                scriptCandidates(scriptNames))

\* C16: the file list after linking is the one linking produces for the
\* project, and it is the same for every order in which the module list and
\* the two directory listings may come.
C16_OrderFromSetOnly ==
    contains("Precompiling", started) =>
        LET linked == IF metaOnDisk # <<>> THEN Tail(files) ELSE files
        IN /\ linked = linkedOrder(modules, localesFs.entries, autoFs.entries)
           /\ \A m \in Perms(Range(modules)) :
              \A l \in Perms(Range(localesFs.entries)) :
              \A a \in Perms(Range(autoFs.entries)) :
                  linkedOrder(m, l, a) = linked

\* C17: the file list the File Validator hands to linking holds package.json
\* and index.js, icon.png exactly when the listing has it, each module of
\* index.js that starts with './' without that prefix, and nothing else, so
\* no external package; without icon.png there is one warning and the
\* validator does not reject the listing but goes on to read index.js.
C17_InitialFileSet ==
    /\ pc = "Linking" =>
          /\ Range(files) =
                {PackageJson, IndexJs}
                \cup (IF IconPng \in top THEN {IconPng} ELSE {})
                \cup {SubSeq(m, 3, Len(m)) :
                        m \in {n \in Range(modules) : n[1] = "." /\ n[2] = "/"}}
          /\ contains(IconPng, files) <=> IconPng \in top
          /\ \A m \in Range(modules) :
                (m[1] # "." \/ m[2] # "/") => ~contains(m, files)
    /\ vstep \in {"readIndex", "done"} =>
          warnings = (IF IconPng \in top THEN 0 ELSE 1)
    /\ (vstep # "readdir" /\ {PackageJson, IndexJs} \subseteq top) =>
          /\ vstep # "rejected"
          /\ error.kind # "MissingRequiredFiles"

\* index.js requires a package and a local file, and there is no icon
C17_Witness ==
    /\ pc = "Linking"
    /\ modules = <<RamdaModule, LibModule>>
    /\ IconPng \notin top
    /\ warnings = 1
    /\ files = <<SubSeq(LibModule, 3, Len(LibModule)), PackageJson, IndexJs>>

\* the paths lstatSync found to be neither file nor directory
oddSeen == {q \in DOMAIN tree : tree[q] \notin {"file", "dir"}}

\* C18: when a path of the file list, or a path met below a directory of
\* it, is neither a file nor a directory, the build fails while archiving
\* with an error naming such a path, and there is no archive file.
C18_OddTypeFailsBuild ==
    oddSeen # {} =>
        /\ pc = "Failed"
        /\ started[Len(started)] = "Archiving"
        /\ error.subject \in oddSeen
        /\ error.kind = (IF tree[error.subject] = "other"
                         THEN "UnsupportedFileType" ELSE "IOError")
        /\ archive = "none"
        /\ target = <<>>
        /\ written \subseteq {metaPath}

\* something that is no file was met below a directory of the file list
C18_Witness ==
    /\ pc = "Failed"
    /\ error.kind = "UnsupportedFileType"
    /\ error.subject \notin rootPaths
    /\ \E q \in rootPaths \cap DOMAIN tree :
          tree[q] = "dir" /\ startsWith(q \o <<"/">>, error.subject)
    /\ archive = "none"

\* the paths of the files at or below the paths of the file list, relative
\* to the project directory
filesBelowFileSet ==
    {drop(Len(dir) + 1, q) :
        q \in {x \in DOMAIN tree :
                 /\ tree[x] = "file"
                 /\ \E i \in DOMAIN files :
                       \/ x = dir \o <<"/">> \o files[i]
                       \/ startsWith(dir \o <<"/">> \o files[i] \o <<"/">>, x)}}

\* C19: in a build that got past archiving, every path of the file list is
\* a file or a directory, and the file entries of the archive are the files
\* of the file list and the files at any depth below its directories, each
\* under its path relative to the project directory and with the content
\* of that file.
C19_ArchiveHoldsFileSet ==
    contains("ResolvingOutput", started) =>
        /\ \A i \in DOMAIN files : tree[pathJoin(dir, files[i])] \in {"file", "dir"}
        /\ {zip[i].name : i \in {j \in DOMAIN zip : ~zip[j].dir}} = filesBelowFileSet
        /\ \A i \in DOMAIN zip :
              ~zip[i].dir => zip[i].content.of = dir \o <<"/">> \o zip[i].name

\* a successful build whose archive holds a file from two directories down
C19_Witness ==
    /\ pc = "Done"
    /\ \E i \in DOMAIN zip :
          /\ ~zip[i].dir
          /\ Cardinality({j \in DOMAIN zip[i].name : zip[i].name[j] = "/"}) = 2
          /\ zip[i].name \notin Range(files)

\* ------------------------------------------------------------------------
\* Properties of the precompilation and of the file set
\* ------------------------------------------------------------------------
\* the execution set as the file list gives it: default, then the locale
\* files in the order of the file list, each with its own content
executionSetOfFiles ==
    executionSet([i \in 1..Len(preFiles) |->
        [locale |-> localeByFile(preFiles[i]),
         strings |-> jsonParse(preFiles[i],
                               entryKind(localesFs, LocalesDir, preFiles[i]))]])

\* the projected result of the j-th execution of that set
projectedOfFiles(j) ==
    project(executionSetOfFiles[j].locale,
            getProperties(executionSetOfFiles[j].locale,
                          executionSetOfFiles[j].strings))

\* the file list linking gives, from what validation and linking found
linkedOfProject ==
    linkedFiles(initialFiles(modules, top), locResult, acCand)

\* C24: in whatever order the reads of the locale files and the executions
\* complete, the pair of a locale file stands at the place of its file, the
\* result of an execution at the place of its entry in the execution set
\* (default first, then the locale files in file-list order), the merged
\* metadata is the merge of the results in that order, and the file list is
\* the linked one, with .meta in front once the metadata is written.
C24_CombinedInExecutionSetOrder ==
    /\ \A i \in DOMAIN pairs : pairs[i] = executionSetOfFiles[i + 1]
    /\ invoked # <<>> => invoked = executionSetOfFiles
    /\ \A j \in DOMAIN runResult : runResult[j] = projectedOfFiles(j)
    /\ meta # <<>> =>
          Head(meta) = mergeResults([j \in 1..Len(executionSetOfFiles) |->
                                        projectedOfFiles(j)])
    /\ (pc = "Precompiling" /\ preStage # "done") => files = linkedOfProject
    /\ preStage = "done" => files = withMeta(linkedOfProject)

\* of three executions the two of the locale files have completed, the one
\* of the default locale has not
C24_Witness ==
    /\ Len(invoked) = 3
    /\ runPending = {1}
    /\ DOMAIN runResult = {2, 3}
    /\ DOMAIN pairs = {1, 2}

\* a list that holds no element twice
noDuplicates(list) ==
    \A i \in DOMAIN list : \A j \in DOMAIN list : list[i] = list[j] => i = j

\* C25: the file list never holds a path twice, at no stage, and from the
\* end of precompilation on it holds .meta exactly once.
C25_NoPathTwice ==
    /\ noDuplicates(files)
    /\ preStage = "done" =>
          Cardinality({i \in DOMAIN files : files[i] = MetaFile}) = 1

touching(n) ==
    {k \in DOMAIN calls :
        \/ calls[k].op = "clear"
             /\ (calls[k].name = n \/ hasMagic(calls[k].name))
        \/ calls[k].op = "upsert"
             /\ calls[k].name = n /\ calls[k].store # Undefined}

\* the caller made each of the calls ks after it saw the earlier ones settle
inTurn(ks) ==
    \A k1 \in ks : \A k2 \in ks : k1 < k2 => k1 \in calls[k2].after

\* the calls of ks that succeeded; the last of a set of calls
succeeded(ks) == {k \in ks : calls[k].stage = "resolved"}
lastOf(ks) == CHOOSE k \in ks : \A j \in ks : j <= k

\* a store that is a JSON value: null or an object of JSON values
isJsonValue(s) == s.type \in {"Null", "Object"}

\* the reads of database n that settled with every call touching n either
\* settled before the read was made or made after the read settled, those
\* calls themselves made in turn
readsInTurn(n) ==
    {i \in DOMAIN calls :
        /\ calls[i].op = "read" /\ calls[i].name = n
        /\ calls[i].stage \in settled
        /\ inTurn(touching(n))
        /\ \A k \in touching(n) :
              \/ k < i /\ k \in calls[i].after
              \/ k > i /\ i \in calls[k].after}

\* the calls touching n that succeeded before read i was made
before(n, i) == succeeded({k \in touching(n) : k < i})

\* the store of the last call to succeed on database n before read i
lastStore(n, i) == calls[lastOf(before(n, i))].store

\* (a) once the calls touching n, made in turn, have all settled and the last
\* that succeeded is an upsert, the file holds exactly JSON.stringify of its
\* store; (c) a database no upsert or clear was called on never holds a
\* stored value
fileHoldsLastUpsert(n) ==
    /\ (/\ inTurn(touching(n))
        /\ \A k \in touching(n) : calls[k].stage \in settled
        /\ succeeded(touching(n)) # {}
        /\ calls[lastOf(succeeded(touching(n)))].op = "upsert")
          => dbFiles[n] =
               stringify(calls[lastOf(succeeded(touching(n)))].store)
    /\ touching(n) = {} => dbFiles[n] \in {<<>>, <<Garbage>>}

unserializable == {i \in DOMAIN calls :
                      calls[i].op = "upsert" /\ ~serializes(calls[i].store)}

\* the step makes call i or moves it on
moved(i) == i \notin DOMAIN calls \/ calls'[i] # calls[i]

\* the calls touching n that were made before read i
earlier(n, i) == {k \in touching(n) : k < i}

\* a read made in turn right after an upsert of a store that has no text
\* sees that upsert rejected and resolves to what was stored before it:
\* nothing, or the store of the last successful upsert
readAfterRejected(n, i) ==
    (earlier(n, i) # {} /\ lastOf(earlier(n, i)) \in unserializable)
        => /\ calls[lastOf(earlier(n, i))].stage = "rejected"
           /\ calls[i].result =
                IF before(n, i) = {} \/ calls[lastOf(before(n, i))].op = "clear"
                THEN Undefined
                ELSE jsonParseText(Head(stringify(lastStore(n, i))))

C23_ReadNeverRejectsClearOnlyName ==
    /\ [](\A i \in DOMAIN calls :
             calls[i].op = "read" => calls[i].stage # "rejected")
    /\ [](\A n \in DbNames : \A i \in readsInTurn(n) :
             (before(n, i) = {} \/ calls[lastOf(before(n, i))].op = "clear")
                => calls[i].result = Undefined)
    /\ [][\A i \in DOMAIN calls :
             (calls[i].op = "read" /\ calls'[i] # calls[i]
                /\ \/ dbFiles[calls[i].name] = <<>>
                   \/ ~parsesText(Head(dbFiles[calls[i].name])))
               => calls'[i].stage = "resolved" /\ calls'[i].result = Undefined
            ]_vars
    /\ [][\A i \in DOMAIN calls :
             (calls[i].op = "clear" /\ calls'[i] # calls[i])
               => \A n \in DbNames :
                     dbFiles'[n] = IF n = calls[i].name THEN <<>> ELSE dbFiles[n]
            ]_vars

\* ------------------------------------------------------------------------
\* Properties of the interactive input
\* ------------------------------------------------------------------------
\* the place of a key among the keys of the questions
placeOf(key) == CHOOSE i \in DOMAIN questions : questions[i].key = key

\* a value that is neither null nor undefined
hasValue(v) == v.type \notin {"Null", "Undefined", "Pending"}

\* the prompts whose answer resolved to a value, as answers
valued ==
    LET got == SelectSeq(asked, LAMBDA a : hasValue(a.value))
    IN [i \in DOMAIN got |-> [key |-> got[i].key, value |-> got[i].value]]

\* C26: once the warnings are out, (1) the first prompt is for the first
\* key, and after a prompt whose answer resolved to null or undefined the
\* same question is prompted again, after any other the question of the next
\* key; (2) the answers collected are the values given, one per question
\* in key order, none of them null or undefined; (3) while a prompt is open
\* the input is not closed, the promise is not resolved and the questions
\* from the open one on remain; (4) the input is closed and the promise
\* resolved exactly when every question has its value, the input once, the
\* promise with one answer per question in key order.
C26_AskInKeyOrderUntilValued ==
    askStage \in {"waiting", "resolved"} =>
        /\ asked # <<>> => asked[1].key = keysOf(questions)[1]
        /\ \A i \in 1..(Len(asked) - 1) :
              /\ asked[i].value # Pending
              /\ asked[i + 1].key =
                    IF ~hasValue(asked[i].value) THEN asked[i].key
                    ELSE keysOf(questions)[placeOf(asked[i].key) + 1]
        /\ answered = valued
        /\ \A i \in DOMAIN answered :
              /\ answered[i].key = keysOf(questions)[i]
              /\ hasValue(answered[i].value)
        /\ askStage = "waiting" =>
              /\ asked[Len(asked)].value = Pending
              /\ remaining = SubSeq(keysOf(questions), Len(answered) + 1,
                                    Len(questions))
              /\ asked[Len(asked)].key = Head(remaining)
              /\ closes = 0
              /\ resolvedWith = <<>>
        /\ askStage = "resolved" =>
              /\ \A i \in DOMAIN asked : asked[i].value # Pending
              /\ Len(answered) = Len(questions)
              /\ closes = 1
              /\ resolvedWith = <<answered>>
        /\ (Len(answered) = Len(questions)) => askStage = "resolved"

\* two questions were asked with three prompts, the first question twice
\* because its first answer resolved to no value, and ask is resolved
C26_Witness ==
    /\ askStage = "resolved"
    /\ Len(questions) = 2
    /\ Len(asked) = 3
    /\ ~hasValue(asked[1].value)
    /\ asked[2].key = asked[1].key
    /\ Len(Head(resolvedWith)) = 2

====
